---- MODULE Spec2Model ----
(***************************************************************************)
(* A model of zest (src/zest.hh): the registry of test groups              *)
(* (Runner::groups), the selection directives (Runner::skip, Runner::only),*)
(* the comparators (ZEST_IS_FN), the per-test record (TestCase) and the    *)
(* traversal of Runner::run, one step per loop position.                   *)
(***************************************************************************)
EXTENDS Integers, Sequences, FiniteSets, TLC

(* ---- bounds of the model ---- *)
MaxSetup == 3       \* add/skip/only calls made before run()
MaxCalls == 2       \* comparator and fail() calls made by bodies and hooks during one run()

(* ---- identities ---- *)
NULL == 0           \* nullptr
FlagSkip == -1      \* &Flag::skip
FlagOnly == -2      \* &Flag::only

Tests == 1..MaxSetup
Recs == Tests \cup {FlagSkip, FlagOnly}
\* The operands of the usage example: is_gt(3, 4), is_gt(4, 3).
Values == {3, 4}
Ops == {"eq", "ne", "gt", "lt", "ge", "le"}

\* The group names in use, strings over the alphabet of naturals: the shorter
\* name sorts after the longer one.
GroupNames == {<<2>>, <<1, 2>>}

\* Mutant of LexLess: the shorter string sorts first.
ShorterFirst(s, t) == Len(s) < Len(t)

\* std::string operator< : lexicographic comparison, the key order of std::map.
LexLess(s, t) ==
  \E k \in 1..Len(t) :
     /\ \A j \in 1..(k - 1) : j <= Len(s) /\ s[j] = t[j]
     /\ (k > Len(s) \/ s[k] < t[k])

VARIABLES
  groups,     \* Runner::groups : group name -> vector of record pointers
  only_mode,  \* Runner::only_mode
  current,    \* Runner::current
  tc,         \* the TestCase records: run (non-null?), failed, done
  out,        \* the report stream (std::cout / stdout), a sequence of lines
  pc,         \* position of the process: main, or a position inside run()
  nfail,      \* run() local
  nskip,      \* run() local
  seen,       \* the groups the range-for of run() has already passed
  grp,        \* the group the range-for of run() is at
  ti,         \* index of the inner range-for in the group's vector (1-based)
  result,     \* the value run() returned
  exc,        \* the exception that left run(), if any
  lastCall,   \* the comparator call last made in the running body, with its return value
  trace       \* history: the hooks, bodies and comparator calls invoked so far

vars == <<groups, only_mode, current, tc, out, pc, nfail, nskip, seen, grp, ti,
          result, exc, lastCall, trace>>

NoGroup == <<>>
NoResult == -1
NoCall == [op |-> "none", e |-> 0, a |-> 0, ret |-> FALSE]

(* ---- TestCase ---- *)
\* struct TestCase: int failed = 0; bool done = false; Run* run (static storage: null).
NewTestCase == [run |-> FALSE, failed |-> 0, done |-> FALSE]

\* One line of the report: its kind, the test or group it is about, its text
\* and (for the verdict) the skipped count printed with it.
MkLine(kind, c, g, text, n) == [kind |-> kind, t |-> c, g |-> g, text |-> text, n |-> n]

\* Mutant of Output: the failing glyph is printed at every failure.
OutputEveryFailure(c, rec, o) ==
  IF ~rec.done /\ rec.failed >= 1 THEN Append(o, MkLine("cross", c, NoGroup, "title", 0))
  ELSE IF rec.done /\ rec.failed = 0 THEN Append(o, MkLine("check", c, NoGroup, "title", 0))
  ELSE o

\* TestCase::output(): the report after c.output(), c's record being rec.
Output(c, rec, o) ==
  IF ~rec.done /\ rec.failed = 1 THEN Append(o, MkLine("cross", c, NoGroup, "title", 0))
  ELSE IF rec.done /\ rec.failed = 0 THEN Append(o, MkLine("check", c, NoGroup, "title", 0))
  ELSE o

\* Mutant of FailRec: the counter is set, not incremented.
FailRecSet(rec) == [rec EXCEPT !.failed = 1]

\* TestCase::fail(file, line): ++failed.
FailRec(rec) == [rec EXCEPT !.failed = @ + 1]

\* TestCase::fail(file, line) and the text its caller streams after it: the
\* report after the call, one "<file>:<line>: FAIL: <msg>" line appended after
\* whatever output() prints.
FailOut(c, rec, o, msg) ==
  Append(Output(c, FailRec(rec), o), MkLine("FAIL", c, NoGroup, msg, 0))

(* ---- Runner: registry ---- *)
\* std::map::operator[] : the group's vector, empty if the key is new.
At(g) == IF g \in DOMAIN groups THEN groups[g] ELSE <<>>

\* groups[g] = v, creating the key if absent.
Store(g, v) == [h \in DOMAIN groups \cup {g} |-> IF h = g THEN v ELSE groups[h]]

RECURSIVE SumLen(_)
SumLen(S) == IF S = {} THEN 0
             ELSE LET g == CHOOSE h \in S : TRUE IN Len(groups[g]) + SumLen(S \ {g})

\* Number of add/skip/only calls made so far: each inserts one element.
Entries == SumLen(DOMAIN groups)

\* The record of the next TEST declaration to register (declaration order).
Registered == {c \in Tests : tc[c].run}
NextRec == CHOOSE c \in Tests \ Registered : \A d \in Tests \ Registered : c <= d

\* Mutant of add: the record is inserted at the front of the group.
addFront(g) ==
  /\ pc = "main"
  /\ Entries < MaxSetup
  /\ Tests \ Registered # {}
  /\ tc' = [tc EXCEPT ![NextRec].run = TRUE]
  /\ groups' = Store(g, <<NextRec>> \o At(g))
  /\ UNCHANGED <<only_mode, current, out, pc, nfail, nskip, seen, grp, ti,
                 result, exc, lastCall, trace>>

\* Runner::add
add(g) ==
  /\ pc = "main"
  /\ Entries < MaxSetup
  /\ Tests \ Registered # {}
  /\ tc' = [tc EXCEPT ![NextRec].run = TRUE]
  /\ groups' = Store(g, Append(At(g), NextRec))
  /\ UNCHANGED <<only_mode, current, out, pc, nfail, nskip, seen, grp, ti,
                 result, exc, lastCall, trace>>

\* Mutant of skip: the group is looked up (and so created) but nothing is
\* inserted.
skipLooksUpOnly(g) ==
  /\ pc = "main"
  /\ Entries < MaxSetup
  /\ groups' = Store(g, At(g))
  /\ UNCHANGED <<only_mode, current, tc, out, pc, nfail, nskip, seen, grp, ti,
                 result, exc, lastCall, trace>>

\* Mutant of skip: the sentinel is appended after the group's entries.
skipAppend(g) ==
  /\ pc = "main"
  /\ Entries < MaxSetup
  /\ groups' = Store(g, Append(At(g), FlagSkip))
  /\ UNCHANGED <<only_mode, current, tc, out, pc, nfail, nskip, seen, grp, ti,
                 result, exc, lastCall, trace>>

\* Runner::skip
skip(g) ==
  /\ pc = "main"
  /\ Entries < MaxSetup
  /\ groups' = Store(g, <<FlagSkip>> \o At(g))
  /\ UNCHANGED <<only_mode, current, tc, out, pc, nfail, nskip, seen, grp, ti,
                 result, exc, lastCall, trace>>

\* Mutant of only: the only-sentinel is inserted, only_mode is left alone.
onlyKeepsMode(g) ==
  /\ pc = "main"
  /\ Entries < MaxSetup
  /\ groups' = Store(g, <<FlagOnly>> \o At(g))
  /\ UNCHANGED <<only_mode, current, tc, out, pc, nfail, nskip, seen, grp, ti,
                 result, exc, lastCall, trace>>

\* Runner::only
only(g) ==
  /\ pc = "main"
  /\ Entries < MaxSetup
  /\ groups' = Store(g, <<FlagOnly>> \o At(g))
  /\ only_mode' = TRUE
  /\ UNCHANGED <<current, tc, out, pc, nfail, nskip, seen, grp, ti,
                 result, exc, lastCall, trace>>

(* ---- comparators (ZEST_IS_FN) ---- *)
\* x COMP y for the six instantiations of ZEST_IS_FN.
Comp(op, x, y) ==
  CASE op = "eq" -> x = y
    [] op = "ne" -> x # y
    [] op = "gt" -> x > y
    [] op = "lt" -> x < y
    [] op = "ge" -> x >= y
    [] op = "le" -> x <= y

\* The guards of is_NAME_: the message thrown, or "none".
IsThrows ==
  IF current = NULL THEN "no current test"
  ELSE IF tc[current].done THEN "finished test"
  ELSE "none"

\* Mutant of IsCond: the operands in source order, (lhs COMP rhs).
IsCondLhsFirst(op, lhs, rhs) == Comp(op, lhs, rhs)

\* The condition is_NAME_ tests: (rhs COMP lhs).
IsCond(op, lhs, rhs) == Comp(op, rhs, lhs)

\* is_NAME_(f, l, lhs_str, lhs, rhs_str, rhs) when neither guard throws: its
\* effect on the current record and the report.
is_(op, lhs, rhs) ==
  IF IsCond(op, lhs, rhs)
  THEN UNCHANGED <<tc, out>>
  ELSE /\ tc' = [tc EXCEPT ![current] = FailRec(@)]
       /\ out' = FailOut(current, tc[current], out, "rhs COMP lhs")

(* ---- Runner::run ---- *)
\* Mutant of Skipped: only-mode is not consulted.
SkippedIgnoresOnlyMode(v) == v[1] = FlagSkip

\* Mutant of Skipped: every group without the only-sentinel is skipped.
SkippedUnlessOnly(v) == v[1] # FlagOnly

\* Mutant of Skipped: the skip-sentinel is not consulted.
SkippedIgnoresSkipFlag(v) == (v[1] # FlagOnly) /\ only_mode

\* Mutant of Skipped: the sentinel inserted first (the last of the leading
\* sentinels) is the one consulted.
SkippedByOldest(v) ==
  LET k == Cardinality({i \in DOMAIN v : v[i] \in {FlagSkip, FlagOnly}})
      s == IF k = 0 THEN v[1] ELSE v[k]
  IN  (s = FlagSkip) \/ ((s # FlagOnly) /\ only_mode)

\* The test of run() that a group is skipped, v being the group's vector.
Skipped(v) == (v[1] = FlagSkip) \/ ((v[1] # FlagOnly) /\ only_mode)

\* The key the range-for over the std::map reaches next: the least unseen one.
Unseen == DOMAIN groups \ seen
NextKey == CHOOSE g \in Unseen : \A h \in Unseen : h = g \/ LexLess(g, h)

Count(ev) == Cardinality({i \in DOMAIN trace : trace[i][1] \in ev})
Calls == Count({"is_true", "is_false", "before_fail", "after_fail"})

\* run(): nfail=0, nskip=0
RunBegin ==
  /\ pc = "main"
  /\ pc' = "groups"
  /\ nfail' = 0
  /\ nskip' = 0
  /\ seen' = {}
  /\ UNCHANGED <<groups, only_mode, current, tc, out, grp, ti, result, exc,
                 lastCall, trace>>

\* for (auto& [group, tests] : groups): a skipped group
RunSkipGroup ==
  /\ pc = "groups"
  /\ Unseen # {}
  /\ Skipped(groups[NextKey])
  /\ nskip' = nskip + (Len(groups[NextKey]) - 1)
  /\ seen' = seen \cup {NextKey}
  /\ UNCHANGED <<groups, only_mode, current, tc, out, pc, nfail, grp, ti,
                 result, exc, lastCall, trace>>

\* for (auto& [group, tests] : groups): a group that runs; its header is printed
RunEnterGroup ==
  /\ pc = "groups"
  /\ Unseen # {}
  /\ ~Skipped(groups[NextKey])
  /\ out' = Append(out, MkLine("header", NULL, NextKey, "[group]", 0))
  /\ grp' = NextKey
  /\ ti' = 1
  /\ pc' = "tests"
  /\ UNCHANGED <<groups, only_mode, current, tc, nfail, nskip, seen, result,
                 exc, lastCall, trace>>

\* for (auto t : tests): the vector is exhausted
RunLeaveGroup ==
  /\ pc = "tests"
  /\ ti > Len(groups[grp])
  /\ seen' = seen \cup {grp}
  /\ grp' = NoGroup
  /\ ti' = 0
  /\ pc' = "groups"
  /\ UNCHANGED <<groups, only_mode, current, tc, out, nfail, nskip, result,
                 exc, lastCall, trace>>

\* if (!t->run) { continue; }
RunSkipEntry ==
  /\ pc = "tests"
  /\ ti <= Len(groups[grp])
  /\ ~tc[groups[grp][ti]].run
  /\ ti' = ti + 1
  /\ UNCHANGED <<groups, only_mode, current, tc, out, pc, nfail, nskip, seen,
                 grp, result, exc, lastCall, trace>>

\* Mutant of RunSetCurrent: an entry is executed whether or not it has a body.
RunSetCurrentAnyEntry ==
  /\ pc = "tests"
  /\ ti <= Len(groups[grp])
  /\ current' = groups[grp][ti]
  /\ pc' = "before"
  /\ UNCHANGED <<groups, only_mode, tc, out, nfail, nskip, seen, grp, ti,
                 result, exc, lastCall, trace>>

\* current = t;
RunSetCurrent ==
  /\ pc = "tests"
  /\ ti <= Len(groups[grp])
  /\ tc[groups[grp][ti]].run
  /\ current' = groups[grp][ti]
  /\ pc' = "before"
  /\ UNCHANGED <<groups, only_mode, tc, out, nfail, nskip, seen, grp, ti,
                 result, exc, lastCall, trace>>

\* A hook (before() or after()) of the current test; f: the hook calls fail("message").
Hook(f, name) ==
  /\ f => Calls < MaxCalls
  /\ IF f
     THEN /\ tc' = [tc EXCEPT ![current] = FailRec(@)]
          /\ out' = FailOut(current, tc[current], out, "message")
          /\ trace' = trace \o <<<<name \o "_fail", current>>, <<name, current>>>>
     ELSE /\ UNCHANGED <<tc, out>>
          /\ trace' = Append(trace, <<name, current>>)

\* t->before();
RunBefore(f) ==
  /\ pc = "before"
  /\ Hook(f, "before")
  /\ pc' = "body"
  /\ UNCHANGED <<groups, only_mode, current, nfail, nskip, seen, grp, ti,
                 result, exc, lastCall>>

\* Mutant of Catch: no handler, the exception leaves run() unrecorded.
CatchNothing(what) ==
  /\ UNCHANGED <<tc, out>>
  /\ exc' = what
  /\ pc' = "thrown"
  /\ lastCall' = NoCall
  /\ trace' = Append(trace, <<"body_throw", current>>)

\* Mutant of Catch: the test is marked done once its fault is recorded.
CatchMarksDone(what) ==
  /\ tc' = [tc EXCEPT ![current] = [FailRec(@) EXCEPT !.done = TRUE]]
  /\ out' = FailOut(current, tc[current], out, "Uncaught exception")
  /\ exc' = what
  /\ pc' = "thrown"
  /\ lastCall' = NoCall
  /\ trace' = Append(trace, <<"body_throw", current>>)

\* catch (...) { t->fail("Uncaught exception"); std::rethrow_exception(...); }
Catch(what) ==
  /\ tc' = [tc EXCEPT ![current] = FailRec(@)]
  /\ out' = FailOut(current, tc[current], out, "Uncaught exception")
  /\ exc' = what
  /\ pc' = "thrown"
  /\ lastCall' = NoCall
  /\ trace' = Append(trace, <<"body_throw", current>>)

\* Mutant of RunBodyIs: a comparator whose condition is false records the
\* failure and then leaves the body as a fault does.
RunBodyIsAborts(op, e, a) ==
  /\ pc = "body"
  /\ Calls < MaxCalls
  /\ IF IsThrows # "none"
     THEN Catch(IsThrows)
     ELSE /\ is_(op, e, a)
          /\ lastCall' = [op |-> op, e |-> e, a |-> a, ret |-> IsCond(op, e, a)]
          /\ trace' = Append(trace, <<IF IsCond(op, e, a) THEN "is_true"
                                      ELSE "is_false", current>>)
          /\ pc' = IF IsCond(op, e, a) THEN pc ELSE "thrown"
          /\ exc' = IF IsCond(op, e, a) THEN exc ELSE "fault"
  /\ UNCHANGED <<groups, only_mode, current, nfail, nskip, seen, grp, ti, result>>

\* t->run(): the body calls the comparator is_<op>(e, a)
RunBodyIs(op, e, a) ==
  /\ pc = "body"
  /\ Calls < MaxCalls
  /\ IF IsThrows # "none"
     THEN Catch(IsThrows)
     ELSE /\ is_(op, e, a)
          /\ lastCall' = [op |-> op, e |-> e, a |-> a, ret |-> IsCond(op, e, a)]
          /\ trace' = Append(trace, <<IF IsCond(op, e, a) THEN "is_true"
                                      ELSE "is_false", current>>)
          /\ UNCHANGED <<pc, exc>>
  /\ UNCHANGED <<groups, only_mode, current, nfail, nskip, seen, grp, ti, result>>

\* Mutant of RunBodyReturn: after() is not called.
RunBodyReturnNoAfter ==
  /\ pc = "body"
  /\ pc' = "done"
  /\ lastCall' = NoCall
  /\ trace' = Append(trace, <<"body_return", current>>)
  /\ UNCHANGED <<groups, only_mode, current, tc, out, nfail, nskip, seen, grp,
                 ti, result, exc>>

\* t->run(): the body returns
RunBodyReturn ==
  /\ pc = "body"
  /\ pc' = "after"
  /\ lastCall' = NoCall
  /\ trace' = Append(trace, <<"body_return", current>>)
  /\ UNCHANGED <<groups, only_mode, current, tc, out, nfail, nskip, seen, grp,
                 ti, result, exc>>

\* t->run(): the body throws something of its own
RunBodyThrow ==
  /\ pc = "body"
  /\ Catch("fault")
  /\ UNCHANGED <<groups, only_mode, current, nfail, nskip, seen, grp, ti, result>>

\* t->after();
RunAfter(f) ==
  /\ pc = "after"
  /\ Hook(f, "after")
  /\ pc' = "done"
  /\ UNCHANGED <<groups, only_mode, current, nfail, nskip, seen, grp, ti,
                 result, exc, lastCall>>

\* Mutant of Tally: every failed assertion counts toward the run.
TallyAssertions(rec) == rec.failed

\* t->failed ? 1 : 0
Tally(rec) == IF rec.failed # 0 THEN 1 ELSE 0

\* Mutant of RunDone: the loop over the group's vector does not advance.
RunDoneStays ==
  /\ pc = "done"
  /\ tc' = [tc EXCEPT ![current].done = TRUE]
  /\ out' = Output(current, [tc[current] EXCEPT !.done = TRUE], out)
  /\ nfail' = nfail + Tally(tc[current])
  /\ current' = NULL
  /\ pc' = "tests"
  /\ trace' = Append(trace, <<"done", current>>)
  /\ UNCHANGED <<groups, only_mode, nskip, seen, grp, ti, result, exc, lastCall>>

\* t->done = true; t->output(); nfail += t->failed ? 1 : 0; current = nullptr;
RunDone ==
  /\ pc = "done"
  /\ tc' = [tc EXCEPT ![current].done = TRUE]
  /\ out' = Output(current, [tc[current] EXCEPT !.done = TRUE], out)
  /\ nfail' = nfail + Tally(tc[current])
  /\ current' = NULL
  /\ ti' = ti + 1
  /\ pc' = "tests"
  /\ trace' = Append(trace, <<"done", current>>)
  /\ UNCHANGED <<groups, only_mode, nskip, seen, grp, result, exc, lastCall>>

\* Mutant of ExitStatus: the fail tally itself is returned.
ExitStatusTally(n) == n

\* The exit status: return nfail ? 1 : 0;
ExitStatus(n) == IF n # 0 THEN 1 ELSE 0

\* The verdict box, the skipped count and the return of run().
RunEnd ==
  /\ pc = "groups"
  /\ Unseen = {}
  /\ out' = Append(out, MkLine("verdict", NULL, NoGroup,
                               IF nfail # 0 THEN "FAIL" ELSE " OK ", nskip))
  /\ result' = ExitStatus(nfail)
  /\ pc' = "returned"
  /\ UNCHANGED <<groups, only_mode, current, tc, nfail, nskip, seen, grp, ti,
                 exc, lastCall, trace>>

Init ==
  /\ groups = <<>>
  /\ only_mode = FALSE
  /\ current = NULL
  /\ tc = [c \in Recs |-> NewTestCase]
  /\ out = <<>>
  /\ pc = "main"
  /\ nfail = 0
  /\ nskip = 0
  /\ seen = {}
  /\ grp = NoGroup
  /\ ti = 0
  /\ result = NoResult
  /\ exc = "none"
  /\ lastCall = NoCall
  /\ trace = <<>>

Next ==
  \/ \E g \in GroupNames : add(g)
  \/ \E g \in GroupNames : skip(g)
  \/ \E g \in GroupNames : only(g)
  \/ RunBegin
  \/ RunSkipGroup
  \/ RunEnterGroup
  \/ RunLeaveGroup
  \/ RunSkipEntry
  \/ RunSetCurrent
  \/ \E f \in BOOLEAN : RunBefore(f)
  \/ \E op \in Ops, e \in Values, a \in Values : RunBodyIs(op, e, a)
  \/ RunBodyReturn
  \/ RunBodyThrow
  \/ \E f \in BOOLEAN : RunAfter(f)
  \/ RunDone
  \/ RunEnd

Spec == Init /\ [][Next]_vars

\* main() and run() are sequential code: whichever statement is next is
\* eventually executed.
FairSpec == Spec /\ WF_vars(Next)

(* ---- main(): the API called around run() ---- *)
\* The classes of the declared records: TEST declares a zest::TestCase,
\* ZEST_TEST(C, ...) a user class C derived from it. Fixture and Other are two
\* unrelated user classes.
Types == {"TestCase", "Fixture", "Other"}
TypeOf(c) == CASE c % 3 = 1 -> "Fixture"
               [] c % 3 = 2 -> "TestCase"
               [] OTHER -> "Other"

\* dynamic_cast<T&> of an object of class d succeeds: d is T or derives from T.
IsA(d, T) == (T = "TestCase") \/ (T = d)

\* Bound on the number of run() calls made by main().
MaxRuns == 2

\* Number of run() calls that have returned: each printed one verdict.
Runs == Cardinality({i \in DOMAIN out : out[i].kind = "verdict"})

\* Mutant of RunAgain: run() starts by reinitialising every record.
RunAgainResets ==
  /\ pc = "returned"
  /\ Runs < MaxRuns
  /\ pc' = "groups"
  /\ nfail' = 0
  /\ nskip' = 0
  /\ seen' = {}
  /\ result' = NoResult
  /\ tc' = [c \in Recs |-> [tc[c] EXCEPT !.failed = 0, !.done = FALSE]]
  /\ UNCHANGED <<groups, only_mode, current, out, grp, ti, exc, lastCall,
                 trace>>

\* main() calls run() again after run() has returned: the locals start at 0,
\* the loop starts over; no record and no static is reinitialised.
RunAgain ==
  /\ pc = "returned"
  /\ Runs < MaxRuns
  /\ pc' = "groups"
  /\ nfail' = 0
  /\ nskip' = 0
  /\ seen' = {}
  /\ result' = NoResult
  /\ UNCHANGED <<groups, only_mode, current, tc, out, grp, ti, exc, lastCall,
                 trace>>

\* Code of main() is running: before run(), after it returned, or in a
\* handler that caught what run() rethrew.
InMain == pc \in {"main", "returned", "thrown"}

\* main() calls the comparator is_<op>(e, a). A throw is not caught by anyone:
\* the process is terminated.
MainIs(op, e, a) ==
  /\ InMain
  /\ IF IsThrows # "none"
     THEN /\ exc' = IsThrows
          /\ pc' = "aborted"
          /\ lastCall' = NoCall
          /\ UNCHANGED <<tc, out, trace>>
     ELSE /\ Calls < MaxCalls
          /\ is_(op, e, a)
          /\ lastCall' = [op |-> op, e |-> e, a |-> a, ret |-> IsCond(op, e, a)]
          /\ trace' = Append(trace, <<IF IsCond(op, e, a) THEN "is_true"
                                      ELSE "is_false", current>>)
          /\ UNCHANGED <<pc, exc>>
  /\ UNCHANGED <<groups, only_mode, current, nfail, nskip, seen, grp, ti, result>>

\* What zest::current<T>() throws, "none" if it returns.
CurrentThrows(T) ==
  IF current = NULL THEN "current: no current test"
  ELSE IF ~IsA(TypeOf(current), T) THEN "bad_cast"
  ELSE "none"

\* zest::current<T>() called by a test body or by main(). The reference it
\* returns is held in lastCall: op the class asked for, e the record referred to.
CurrentCall(T) ==
  /\ InMain \/ pc = "body"
  /\ IF CurrentThrows(T) = "none"
     THEN /\ lastCall' = [op |-> T, e |-> current, a |-> 0, ret |-> TRUE]
          /\ UNCHANGED <<tc, out, pc, exc, trace>>
     ELSE IF pc = "body"
     THEN Catch(CurrentThrows(T))
     ELSE /\ exc' = CurrentThrows(T)
          /\ pc' = "aborted"
          /\ lastCall' = NoCall
          /\ UNCHANGED <<tc, out, trace>>
  /\ UNCHANGED <<groups, only_mode, current, nfail, nskip, seen, grp, ti, result>>

ApiNext ==
  \/ Next
  \/ RunAgain
  \/ \E op \in Ops, e \in Values, a \in Values : MainIs(op, e, a)
  \/ \E T \in Types : CurrentCall(T)

\* The program with a main() that may call run() more than once and may call
\* the comparators and zest::current<T>() itself.
ApiSpec == Init /\ [][ApiNext]_vars

(***************************************************************************)
(* Properties                                                              *)
(***************************************************************************)
Flags == {FlagSkip, FlagOnly}

\* The names of the events of record c, in order.
Ev(c) == LET es == SelectSeq(trace, LAMBDA x : x[2] = c)
         IN [i \in 1..Len(es) |-> es[i][1]]

\* Number of events of record c whose name is in names.
NEv(c, names) ==
  Cardinality({i \in DOMAIN trace : trace[i][2] = c /\ trace[i][1] \in names})

\* The tests run() has executed to completion (marked done).
DoneTests == {trace[i][2] : i \in {j \in DOMAIN trace : trace[j][1] = "done"}}

\* The tests on which a hook or body has been invoked.
Touched ==
  {trace[i][2] : i \in {j \in DOMAIN trace :
                          trace[j][1] \in {"before", "before_fail", "is_true",
                                          "is_false", "body_return", "body_throw",
                                          "after", "after_fail", "done"}}}

Entry(g) == {groups[g][i] : i \in DOMAIN groups[g]}
RealTests(g) == Cardinality({i \in DOMAIN groups[g] : groups[g][i] \notin Flags})
Last(q) == q[Len(q)]
FailLines(o) == Cardinality({i \in DOMAIN o : o[i].kind = "FAIL"})

\* The relation each comparator stands for, the actual value on the left.
Holds(op, e, a) ==
  CASE op = "eq" -> a = e
    [] op = "ne" -> ~(a = e)
    [] op = "gt" -> e < a
    [] op = "lt" -> e > a
    [] op = "ge" -> ~(a < e)
    [] op = "le" -> ~(a > e)

\* C1: whenever run() has returned, its return value is 0 if no executed test
\* finished with failed > 0, and 1 otherwise.
C1_ExitStatus ==
  pc = "returned" =>
    result = (IF \E c \in DoneTests : tc[c].failed > 0 THEN 1 ELSE 0)

\* Witness of C1: run() returned 1 after a passing and a failing test, with a
\* skipped group.
C1_Witness ==
  /\ pc = "returned" /\ result = 1
  /\ \E c, d \in DoneTests : tc[c].failed > 0 /\ tc[d].failed = 0
  /\ \E g \in DOMAIN groups : groups[g][1] = FlagSkip

\* C2: a comparator called in a running test with expected e and actual a
\* returns true exactly when a == e, a != e, a > e, a < e, a >= e, a <= e
\* respectively; is_gt(3, 4) is true and is_gt(4, 3) is false.
C2_Comparators ==
  lastCall.op # "none" =>
    /\ lastCall.ret = Holds(lastCall.op, lastCall.e, lastCall.a)
    /\ (lastCall.op = "gt" /\ lastCall.e = 3 /\ lastCall.a = 4) => lastCall.ret
    /\ (lastCall.op = "gt" /\ lastCall.e = 4 /\ lastCall.a = 3) => ~lastCall.ret

\* Witness of C2: is_gt(3, 4) was called in a running test and returned true.
C2_Witness ==
  /\ pc = "body"
  /\ lastCall = [op |-> "gt", e |-> 3, a |-> 4, ret |-> TRUE]

\* C3: a test whose hooks did not call fail() and whose body raised no fault is
\* marked done with failed equal to the number of its comparator calls that
\* evaluated false; the run-level fail tally counts each test with failed > 0
\* once and each test with failed = 0 not at all.
C3_FailCount ==
  /\ \A c \in DoneTests :
       NEv(c, {"before_fail", "after_fail"}) = 0 =>
         tc[c].failed = NEv(c, {"is_false"})
  /\ nfail = Cardinality({c \in DoneTests : tc[c].failed > 0})

\* Witness of C3: a test was marked done with two failed assertions and the
\* fail tally is one.
C3_Witness ==
  /\ nfail = 1
  /\ \E c \in DoneTests : tc[c].failed = 2 /\ NEv(c, {"is_false"}) = 2

\* A step in which the running body made a comparator call that did not throw.
IsStep ==
  /\ pc = "body" /\ pc' = "body"
  /\ Len(trace') = Len(trace) + 1
  /\ Last(trace')[1] \in {"is_true", "is_false"}

\* C4: a comparator call whose condition holds returns true, leaves the
\* records and the report unchanged; one whose condition is false increments
\* the active test's failed by exactly one, writes exactly one FAIL line, for
\* that test, changes no other record, and returns false.
C4_ComparatorFrame ==
  [][IsStep =>
       IF Holds(lastCall'.op, lastCall'.e, lastCall'.a)
       THEN lastCall'.ret /\ tc' = tc /\ out' = out
       ELSE /\ ~lastCall'.ret
            /\ tc'[current] = [tc[current] EXCEPT !.failed = @ + 1]
            /\ \A c \in Recs \ {current} : tc'[c] = tc[c]
            /\ Len(out') > Len(out) /\ SubSeq(out', 1, Len(out)) = out
            /\ FailLines(out') = FailLines(out) + 1
            /\ Last(out').kind = "FAIL" /\ Last(out').t = current]_vars

\* Witness of C4: the second false comparator call of a test has returned.
C4_Witness ==
  /\ pc = "body" /\ lastCall.op # "none" /\ ~lastCall.ret
  /\ tc[current].failed = 2
  /\ Last(out).kind = "FAIL"

\* The groups run() skips, as the claims describe them.
IsSkipGroup(g) ==
  \/ groups[g][1] = FlagSkip
  \/ only_mode /\ groups[g][1] # FlagOnly

\* C5: for every group run() skips, no hook or body of any of its tests is
\* invoked during the run, and its records keep failed = 0 and done = false.
C5_SkippedGroupUntouched ==
  pc # "main" =>
    \A g \in DOMAIN groups :
      IsSkipGroup(g) =>
        \A c \in Entry(g) : c \notin Touched /\ tc[c].failed = 0 /\ ~tc[c].done

\* Witness of C5: run() returned having skipped a group that holds a real test
\* and having executed a test of another group.
C5_Witness ==
  /\ pc = "returned"
  /\ \E g \in DOMAIN groups : IsSkipGroup(g) /\ RealTests(g) > 0
  /\ DoneTests # {}

RECURSIVE SumReal(_)
SumReal(S) == IF S = {} THEN 0
              ELSE LET g == CHOOSE h \in S : TRUE IN RealTests(g) + SumReal(S \ {g})

\* C6: the skipped count run() reports equals the number of real
\* (non-sentinel) tests in all the groups it skipped.  The code adds
\* tests.size() - 1 per skipped group, which is that number only for a group
\* carrying exactly one sentinel.
C6_SkipCount ==
  pc = "returned" =>
    /\ nskip = SumReal({g \in DOMAIN groups : IsSkipGroup(g)})
    /\ Last(out).kind = "verdict" /\ Last(out).n = nskip

\* C7: once only(g) has been called for some group, only_mode is true ever
\* after, and run() executes no test of a group on which only() was never
\* called, even if skip() was never called on it.
C7_OnlyMode ==
  (\E g \in DOMAIN groups : FlagOnly \in Entry(g)) =>
    /\ only_mode
    /\ \A g \in DOMAIN groups :
         FlagOnly \notin Entry(g) => Entry(g) \cap Touched = {}

\* Witness of C7: run() returned having executed a test of a group marked only
\* and none of a group of one test on which neither only() nor skip() was called.
C7_Witness ==
  /\ pc = "returned"
  /\ \E g, h \in DOMAIN groups :
       /\ FlagOnly \in Entry(g) /\ Entry(g) \cap DoneTests # {}
       /\ Entry(h) \cap Flags = {} /\ Entry(h) \cap Touched = {}

\* C8 as stated: a group on which skip(g) has been called is skipped by
\* run(), whatever only() calls were made on it or on other groups, in
\* whatever order.
C8_SkipAlwaysWins ==
  \A g \in DOMAIN groups : FlagSkip \in Entry(g) => Entry(g) \cap Touched = {}

\* C8 amended: a group whose sequence starts with the skip-sentinel (skip(g)
\* was the last skip/only call made on it) is skipped by run(), whatever
\* only() calls were made before on it or at any time on other groups; a
\* group on which only(g) was called after skip(g) starts with the
\* only-sentinel and runs.
C8_LastDirectiveWins ==
  /\ \A g \in DOMAIN groups :
       groups[g][1] = FlagSkip => Entry(g) \cap Touched = {}
  /\ pc = "returned" =>
       \A g \in DOMAIN groups :
         groups[g][1] = FlagOnly =>
           \A c \in Entry(g) \ Flags : c \in DoneTests

\* Witness of C8: run() returned having skipped a group on which only(g) and
\* then skip(g) were called.
C8_Witness ==
  /\ pc = "returned"
  /\ \E g \in DOMAIN groups :
       /\ Len(groups[g]) = 3
       /\ groups[g][1] = FlagSkip /\ groups[g][2] = FlagOnly
       /\ groups[g][3] \in Tests \ Touched

\* The hook and body events of record c, without the comparator and fail() calls.
Steps(c) == SelectSeq(Ev(c), LAMBDA n : n \in {"before", "body_return",
                                               "body_throw", "after", "done"})
IsPrefix(p, q) == Len(p) <= Len(q) /\ SubSeq(q, 1, Len(p)) = p

\* C9 as stated: for every test run() executes, before() completes before the
\* body starts and after() runs after the body completes, also when the body
\* ended with a fault caught at the per-test boundary.
C9_AfterAlwaysRuns ==
  \A c \in Tests :
    /\ \/ IsPrefix(Steps(c), <<"before", "body_return", "after", "done">>)
       \/ IsPrefix(Steps(c), <<"before", "body_throw", "after">>)
    /\ (pc \in {"returned", "thrown"} /\ c \in Touched) =>
         NEv(c, {"after"}) = 1

\* C9 amended: for every test run() executes, before() completes before the
\* body starts; after() runs after the body, once, exactly when the body
\* returned normally.  When the body ended with a fault caught at the per-test
\* boundary, after() is not invoked: the fault leaves run() at once.
C9_HookOrder ==
  \A c \in Tests :
    /\ \/ IsPrefix(Steps(c), <<"before", "body_return", "after", "done">>)
       \/ Steps(c) = <<"before", "body_throw">>
    /\ (pc \in {"returned", "thrown"} /\ c \in Touched) =>
         \/ Steps(c) = <<"before", "body_return", "after", "done">>
         \/ Steps(c) = <<"before", "body_throw">> /\ pc = "thrown" /\ current = c

\* Witness of C9: a fault left run() from the body of the second test executed.
C9_Witness ==
  /\ pc = "thrown"
  /\ Steps(current) = <<"before", "body_throw">>
  /\ \E c \in DoneTests : Steps(c) = <<"before", "body_return", "after", "done">>

\* C10: when the body of the executing test raises a fault, run() records a
\* failure on that test (failed is incremented by one, a FAIL line is written,
\* preceded by the test's failing outcome line if this is its first failure)
\* and the fault then leaves run(): run() returns no value.
C10_FaultRecorded ==
  /\ [](pc = "thrown" => exc # "none" /\ result = NoResult)
  /\ [][(pc = "body" /\ pc' = "thrown") =>
          /\ tc'[current] = [tc[current] EXCEPT !.failed = @ + 1]
          /\ \A c \in Recs \ {current} : tc'[c] = tc[c]
          /\ out' = out \o (IF tc[current].failed = 0
                            THEN <<MkLine("cross", current, NoGroup, "title", 0)>>
                            ELSE <<>>)
                        \o <<MkLine("FAIL", current, NoGroup, "Uncaught exception", 0)>>
          /\ exc' # "none" /\ result' = NoResult]_vars

\* Witness of C10: a fault left run() from a body that had made no failing
\* call: the report ends with the test's failing outcome line and a FAIL line.
C10_Witness ==
  /\ pc = "thrown" /\ exc = "fault"
  /\ tc[current].failed = 1
  /\ Len(out) >= 2
  /\ out[Len(out) - 1].kind = "cross" /\ out[Len(out) - 1].t = current
  /\ Last(out).kind = "FAIL" /\ Last(out).text = "Uncaught exception"

\* The group a registered test was declared in.
GroupOf(c) == CHOOSE g \in DOMAIN groups : c \in Entry(g)

\* s sorts before t in dictionary order.
RECURSIVE LexBefore(_, _)
LexBefore(s, t) ==
  IF t = <<>> THEN FALSE
  ELSE IF s = <<>> THEN TRUE
  ELSE IF Head(s) # Head(t) THEN Head(s) < Head(t)
  ELSE LexBefore(Tail(s), Tail(t))

\* The positions of the group headers in the report.
Headers == {i \in DOMAIN out : out[i].kind = "header"}

\* C12: run() visits the groups in lexicographic order of their names, each
\* once, whatever the order of registration: of two executed tests of
\* different groups, the one of the lexicographically smaller group runs first.
C12_GroupOrder ==
  /\ \A i \in 1..(Len(trace) - 1) :
       LET c == trace[i][2]
           d == trace[i + 1][2]
       IN  (c # d /\ GroupOf(c) # GroupOf(d)) =>
             /\ LexBefore(GroupOf(c), GroupOf(d))
             /\ \A e \in Entry(GroupOf(c)) :
                  \A k \in (i + 1)..Len(trace) : trace[k][2] # e
  /\ \A i, j \in Headers : i < j => LexBefore(out[i].g, out[j].g)

\* Witness of C12: the test registered first, in the group that sorts last,
\* ran after the test registered second.
C12_Witness ==
  /\ pc = "returned"
  /\ {1, 2} \subseteq DoneTests
  /\ LexBefore(GroupOf(2), GroupOf(1))
  /\ \E i, j \in DOMAIN trace : i < j /\ trace[i][2] = 2 /\ trace[j][2] = 1

\* No skip() or only() call has been made.
NoDirectives == \A g \in DOMAIN groups : Entry(g) \cap Flags = {}

\* C13: if neither skip() nor only() is called before run(), no group is
\* skipped: every registered entry with a body has its before hook, body and
\* after hook executed exactly once, and the skipped count is 0.
C13_NoDirectivesNoSkip ==
  NoDirectives =>
    /\ nskip = 0
    /\ \A c \in Registered :
         /\ NEv(c, {"before"}) <= 1
         /\ NEv(c, {"body_return", "body_throw"}) <= 1
         /\ NEv(c, {"after"}) <= 1
    /\ pc = "returned" =>
         /\ Last(out).kind = "verdict" /\ Last(out).n = 0
         /\ \A c \in Registered :
              /\ NEv(c, {"before"}) = 1
              /\ NEv(c, {"body_return"}) = 1
              /\ NEv(c, {"after"}) = 1

\* Witness of C13: run() returned after executing the tests of two groups on
\* which no directive was called.
C13_Witness ==
  /\ pc = "returned" /\ NoDirectives
  /\ Cardinality(DOMAIN groups) = 2
  /\ Registered = DoneTests

\* C15: for every group the run skips, the report contains the group's header
\* line "[<group name>]" followed by a "...skipping..." line, and no outcome
\* line of a test of that group.  run() leaves a skipped group with continue
\* before it prints the header, and prints no skipping line at all.
C15_SkippedGroupReported ==
  pc = "returned" =>
    \A g \in DOMAIN groups :
      IsSkipGroup(g) =>
        /\ \E i \in DOMAIN out :
             /\ out[i].kind = "header" /\ out[i].g = g
             /\ i < Len(out) /\ out[i + 1].kind = "skipping"
        /\ \A i \in DOMAIN out :
             out[i].kind \in {"cross", "check"} => out[i].t \notin Entry(g)

\* The index of record c in its group's sequence.
PosOf(c) == CHOOSE i \in DOMAIN groups[GroupOf(c)] : groups[GroupOf(c)][i] = c

\* C16: tests execute strictly sequentially: within a group in the order of
\* the group's sequence, which is the order of registration; the hooks and
\* body of a test complete and the test is marked done before anything of the
\* next test starts; all tests of a group finish before the next group starts.
C16_Sequential ==
  /\ \A i \in 1..(Len(trace) - 1) :
       LET c == trace[i][2]
           d == trace[i + 1][2]
       IN  c # d =>
             /\ trace[i][1] = "done"
             /\ \A k \in (i + 1)..Len(trace) : trace[k][2] # c
             /\ IF GroupOf(c) = GroupOf(d)
                THEN PosOf(c) < PosOf(d) /\ c < d
                ELSE \A e \in Entry(GroupOf(c)) :
                       \A k \in (i + 1)..Len(trace) : trace[k][2] # e
  /\ pc \in {"before", "body", "after", "done"} =>
       \A c \in Touched \ {current} : c \in DoneTests

\* Witness of C16: run() returned after executing two tests of one group and
\* then a test of the other group.
C16_Witness ==
  /\ pc = "returned"
  /\ DoneTests = {1, 2, 3}
  /\ GroupOf(1) = GroupOf(2) /\ GroupOf(3) # GroupOf(1)
  /\ LexBefore(GroupOf(1), GroupOf(3))

\* C17: a record's done flag is false throughout its before hook, body and
\* after hook and becomes true only after the after hook has returned; it is
\* never true for a record whose before, body and after did not all complete
\* (a skipped test, a sentinel, a test whose body raised a fault).
C17_DoneFlag ==
  /\ pc \in {"before", "body", "after", "done"} => ~tc[current].done
  /\ \A c \in Recs :
       tc[c].done => Steps(c) = <<"before", "body_return", "after", "done">>
  /\ \A c \in Flags : ~tc[c].done
  /\ pc = "thrown" => ~tc[current].done

\* Witness of C17: a fault left run() from the second test of a group that
\* carries a sentinel: the first test is done, the faulting one is not.
C17_Witness ==
  /\ pc = "thrown"
  /\ ~tc[current].done
  /\ \E c \in Tests \ {current} : tc[c].done /\ GroupOf(c) = GroupOf(current)
  /\ Entry(GroupOf(current)) \cap Flags # {}

\* Report lines of one kind about test c.
LinesOf(c, kind) == {i \in DOMAIN out : out[i].kind = kind /\ out[i].t = c}

\* C19: every test that run() executes to completion has exactly one outcome
\* line: the failing glyph if it ends with failed >= 1, written once,
\* immediately before the FAIL line of its first failure; the passing glyph if
\* it ends with failed = 0, written only once it is marked done; never both and
\* never none.
C19_OneOutcomeLine ==
  \A c \in Tests :
    LET cross == LinesOf(c, "cross")
        check == LinesOf(c, "check")
        fails == LinesOf(c, "FAIL")
    IN  /\ c \in DoneTests =>
              /\ Cardinality(cross) + Cardinality(check) = 1
              /\ tc[c].failed >= 1 <=> cross # {}
              /\ tc[c].failed = 0 <=> check # {}
        /\ Cardinality(cross) <= 1
        /\ \A i \in cross : (i + 1) \in fails /\ \A j \in fails : j > i
        /\ check # {} => tc[c].done /\ fails = {}
        /\ Cardinality(fails) = tc[c].failed

\* Witness of C19: a completed test that failed twice has a single failing
\* glyph line, and another completed test has the passing glyph line.
C19_Witness ==
  \E c, d \in DoneTests :
    /\ tc[c].failed = 2
    /\ Cardinality(LinesOf(c, "cross")) = 1
    /\ Cardinality(LinesOf(c, "FAIL")) = 2
    /\ tc[d].failed = 0
    /\ Cardinality(LinesOf(d, "check")) = 1

\* Number of sentinel entries in group g.
Sentinels(g) == Cardinality({i \in DOMAIN groups[g] : groups[g][i] \in Flags})

\* C20 as stated: every group's sequence contains at most one sentinel, and if
\* present it is the first element.
C20_AtMostOneSentinel ==
  \A g \in DOMAIN groups :
    /\ Sentinels(g) <= 1
    /\ \A i \in DOMAIN groups[g] : groups[g][i] \in Flags => i = 1

\* C20, amended: a group's sentinels are exactly the first elements of its
\* sequence (no test record precedes one), but there may be several: each skip
\* or only call adds one sentinel at the front and none is ever removed.
C20_SentinelsLeadGroup ==
  /\ [](\A g \in DOMAIN groups :
          \A i \in DOMAIN groups[g] : groups[g][i] \in Flags <=> i <= Sentinels(g))
  /\ [][\A g \in DOMAIN groups' :
          LET old == IF g \in DOMAIN groups THEN groups[g] ELSE <<>>
              new == groups'[g]
          IN  \/ new = old
              \/ new = Append(old, new[Len(new)]) /\ new[Len(new)] \notin Flags
              \/ new = <<new[1]>> \o old /\ new[1] \in Flags]_vars

\* Witness of C20: a group called with skip and only holds two sentinels ahead
\* of its test, and run() has inspected it.
C20_Witness ==
  /\ pc = "returned"
  /\ \E g \in DOMAIN groups :
       /\ Sentinels(g) = 2
       /\ Len(groups[g]) = 3
       /\ groups[g][1] # groups[g][2]
       /\ groups[g][3] \in DoneTests

\* The tests in which a comparator has evaluated false.
FailedIs == {c \in Tests : NEv(c, {"is_false"}) > 0}

\* C18: a comparator that evaluates false unwinds nothing. The call returns
\* into the same body with run()'s position, tallies and pending fault
\* untouched; unless a fault is raised afterwards, the test goes on to its
\* after hook and is marked done, and run() visits every later test and group,
\* prints its verdict and returns an exit status.
C18_FalseNeverUnwinds ==
  /\ [][(Len(trace') = Len(trace) + 1 /\ Last(trace')[1] = "is_false") =>
          /\ pc = "body" /\ pc' = "body"
          /\ UNCHANGED <<groups, only_mode, current, grp, ti, seen, exc, result,
                         nfail, nskip>>]_vars
  /\ [](pc = "returned" =>
          /\ result \in {0, 1}
          /\ Last(out).kind = "verdict"
          /\ \A g \in DOMAIN groups :
               ~IsSkipGroup(g) => Entry(g) \ Flags \subseteq DoneTests)
  /\ (FailedIs # {}) ~> (pc \in {"returned", "thrown"})

\* Witness of C18: run() has returned; a test whose first comparator was false
\* went on to a second comparator call and its after hook, and a test of a
\* later group was executed after it.
C18_Witness ==
  /\ pc = "returned"
  /\ \E c, d \in DoneTests :
       /\ Ev(c) \in {<<"before", "is_false", "is_true", "body_return", "after", "done">>,
                     <<"before", "is_false", "is_false", "body_return", "after", "done">>}
       /\ GroupOf(c) # GroupOf(d)
       /\ LexBefore(GroupOf(c), GroupOf(d))

\* What a comparator throws when it refuses to run.
IsThrowTexts == {"no current test", "finished test"}

\* C11 as stated: a comparator called when Runner::current is null or the
\* current test is already done raises a fatal condition (it returns no
\* value), and that call increments no failed counter and adds no FAIL line
\* to the report, in a second run() as well.
C11_ComparatorFatalUnrecorded ==
  /\ [][(exc' \in IsThrowTexts /\ (exc' # exc \/ pc' # pc)) =>
          /\ \A c \in Recs : tc'[c].failed = tc[c].failed
          /\ FailLines(out') = FailLines(out)]_vars
  /\ [][(lastCall' # lastCall /\ lastCall'.op \in Ops) =>
          current # NULL /\ ~tc[current].done]_vars

\* C14 as stated: zest::current<T>() returns a reference only when a test is
\* executing and its record is a T; the reference is to that test's record.
C14_CurrentOnlyWhileExecuting ==
  lastCall.op \in Types =>
    /\ pc = "body"
    /\ lastCall.e = current
    /\ IsA(TypeOf(current), lastCall.op)

\* The sentinel of group g inserted last (skip and only insert at the front)
\* and the one inserted first.
Newest(g) == groups[g][1]
Oldest(g) == groups[g][Sentinels(g)]

\* C21 as stated: when skip and/or only were called more than once on a group,
\* the first-inserted sentinel governs: the group is skipped or run as if only
\* the first of those calls had been made.
C21_FirstInsertedGoverns ==
  \A g \in DOMAIN groups :
    Sentinels(g) >= 2 =>
      /\ Oldest(g) = FlagSkip => Entry(g) \cap Touched = {}
      /\ (Oldest(g) = FlagOnly /\ pc = "returned") =>
           Entry(g) \ Flags \subseteq DoneTests

\* C21, amended: when skip and/or only were called more than once on a group,
\* the last-inserted sentinel (the first element) governs: the group is
\* skipped if the last call was skip, run if the last call was only.
C21_LastInsertedGoverns ==
  \A g \in DOMAIN groups :
    Sentinels(g) >= 2 =>
      /\ Newest(g) = FlagSkip => Entry(g) \cap Touched = {}
      /\ (Newest(g) = FlagOnly /\ pc = "returned") =>
           Entry(g) \ Flags \subseteq DoneTests

\* Witness of C21: skip(g) and then only(g) were called on a group with a test,
\* and run() has executed that test.
C21_Witness ==
  /\ pc = "returned"
  /\ \E g \in DOMAIN groups :
       /\ Len(groups[g]) = 3
       /\ groups[g][1] = FlagOnly /\ groups[g][2] = FlagSkip
       /\ groups[g][3] \in DoneTests

\* C22: Runner::current is non-null only while a test is executing, and then
\* designates exactly that test; it is null before run() starts, between two
\* tests and after run() has ended, whether run() returned or was left by a
\* fault raised in a test body.
C22_CurrentNullOutsideTests ==
  /\ current # NULL <=> pc \in {"before", "body", "after", "done"}
  /\ current # NULL =>
       /\ grp \in DOMAIN groups
       /\ ti \in DOMAIN groups[grp]
       /\ current = groups[grp][ti]

\* C23: after any sequence of add, skip and only calls every group present in
\* the registry has a non-empty sequence, so the tests[0] that run() inspects
\* exists: a group is created together with its first element and no element
\* is ever removed.
C23_GroupsNonEmpty ==
  /\ [](\A g \in DOMAIN groups : Len(groups[g]) >= 1 /\ groups[g][1] \in Recs)
  /\ [][/\ DOMAIN groups \subseteq DOMAIN groups'
        /\ \A g \in DOMAIN groups : Len(groups'[g]) >= Len(groups[g])
        /\ \A g \in DOMAIN groups' \ DOMAIN groups : Len(groups'[g]) = 1]_vars

\* Witness of C23: run() has inspected a group that skip() alone created, next
\* to a group holding tests.
C23_Witness ==
  /\ pc = "returned"
  /\ \E g, h \in DOMAIN groups :
       /\ groups[g] = <<FlagSkip>>
       /\ g \in seen
       /\ Len(groups[h]) = 2

\* C24: in every group all sentinel entries come before every test record,
\* and run() never treats a sentinel as a test: a sentinel has no body, is
\* never current, has no hook or body invoked on it, is never marked done,
\* never fails and has no line in the report.
C24_SentinelsInert ==
  /\ \A g \in DOMAIN groups :
       \A i, j \in DOMAIN groups[g] :
         (i < j /\ groups[g][j] \in Flags) => groups[g][i] \in Flags
  /\ current \notin Flags
  /\ \A s \in Flags :
       /\ ~tc[s].run /\ ~tc[s].done /\ tc[s].failed = 0
       /\ s \notin Touched
       /\ \A i \in DOMAIN out : out[i].t # s

\* Witness of C24: run() has returned from a group that starts with the
\* only-sentinel; the test after it was executed and failed.
C24_Witness ==
  /\ pc = "returned"
  /\ nfail = 1
  /\ \E g \in DOMAIN groups :
       /\ Len(groups[g]) = 2
       /\ groups[g][1] = FlagOnly
       /\ groups[g][2] \in DoneTests
       /\ tc[groups[g][2]].failed >= 1

\* C25: per-record state is never reset. In every step, repeated run() calls
\* included, each record's failed counter does not decrease and its done flag,
\* once true, stays true; entering run() leaves every record as it was.
C25_RecordsNeverReset ==
  /\ [][\A c \in Recs :
          /\ tc'[c].failed >= tc[c].failed
          /\ tc[c].done => tc'[c].done]_vars
  /\ [][(pc \in {"main", "returned"} /\ pc' = "groups") => tc' = tc]_vars

\* Witness of C25: in a second run() the body of a test is entered with the
\* done flag and the failures of the first run still on its record.
C25_Witness ==
  /\ Runs = 1
  /\ pc = "body"
  /\ tc[current].done
  /\ tc[current].failed >= 1

\* C26: provided no hook or body raises a fault, run() terminates. Once
\* called it reaches its return unless a fault leaves it; no entry is visited
\* twice (the position in a group only advances, a group left is not entered
\* again, no test is executed or marked done more than once); at the return
\* every test with a body in every non-skipped group is done, the verdict is
\* the last line printed and an exit status is returned.
C26_RunTerminates ==
  /\ (pc # "main") ~> (pc \in {"returned", "thrown"})
  /\ [](\A c \in Tests : NEv(c, {"before"}) <= 1 /\ NEv(c, {"done"}) <= 1)
  /\ [][/\ seen \subseteq seen' \/ pc = "main"
        /\ (grp' = grp /\ grp # NoGroup) => ti' >= ti
        /\ (grp' # grp /\ grp' # NoGroup) => grp' \notin seen]_vars
  /\ [](pc = "returned" =>
          /\ seen = DOMAIN groups
          /\ \A g \in DOMAIN groups :
               ~IsSkipGroup(g) =>
                 \A i \in DOMAIN groups[g] :
                   tc[groups[g][i]].run => tc[groups[g][i]].done
          /\ Last(out).kind = "verdict"
          /\ result = (IF nfail # 0 THEN 1 ELSE 0))

\* Witness of C26: run() has returned after skipping one group and executing
\* both tests of another, neither of which failed.
C26_Witness ==
  /\ pc = "returned"
  /\ result = 0
  /\ \E g, h \in DOMAIN groups :
       /\ IsSkipGroup(g)
       /\ ~IsSkipGroup(h)
       /\ Cardinality(Entry(h) \cap DoneTests) = 2
====
